---- MODULE Spec2Model ----
(***************************************************************************)
(* A model of app.py: the FastAPI service that overlays a name on the      *)
(* first page of an uploaded PDF (/process-pdf/), concatenates two PDFs    *)
(* (/merge-pdfs/) and generates a one-page report (/generate-report/).     *)
(*                                                                         *)
(* Lengths are in tenths of a point (inch = 72 pt = 720).  A text is a     *)
(* sequence of tokens: a token is one character, or a run of characters of *)
(* one of the program's string literals.  A token "U+xxxx" stands for the  *)
(* code point xxxx.  A page is the sequence of the text operations of its  *)
(* content stream; a byte string is the empty string, bytes that are no    *)
(* PDF, or the serialisation of a sequence of pages.                       *)
(***************************************************************************)
EXTENDS Integers, Sequences, FiniteSets, TLC

(* ------------------------------ bounds -------------------------------- *)

\* The longest uploaded document, in pages.
MaxPages == 2

\* An output is uploaded again only while its first page holds at most this
\* many text operations.
MaxStack == 2

(* ------------------------- reportlab constants ------------------------ *)

inch == 720

letter_width == 6120

letter_height == 7920

letter == <<letter_width, letter_height>>

(* ------------------------------ bytes --------------------------------- *)

\* b"": what io.BytesIO().getvalue() returns when nothing was written.
EmptyBytes == [kind |-> "empty", pages |-> <<>>]

\* Bytes that are not a PDF file.
JunkBytes == [kind |-> "junk", pages |-> <<>>]

\* The serialisation of a document.
PdfBytes(pages) == [kind |-> "pdf", pages |-> pages]

\* An UploadFile whose read() raises.
BrokenFile == [kind |-> "broken", pages |-> <<>>]

(* --------------------- results of calls that may raise ---------------- *)

Return(v) == [exc |-> "none", val |-> v]

Raise(e) == [exc |-> e, val |-> EmptyBytes]

(* ----------------------------- reportlab ------------------------------ *)

\* Code points that neither Helvetica's encoding (WinAnsi) nor its
\* substitution fonts (Symbol, ZapfDingbats) hold.
NonT1 == {"U+1F9EC", "U+674E"}

\* pdfmetrics.unicode2T1 as drawString uses it: a character no font of the
\* chain encodes is drawn as the .notdef character.
unicode2T1(text) ==
    [i \in 1..Len(text) |-> IF text[i] \in NonT1 THEN "notdef" ELSE text[i]]

\* One text operation of a content stream.
TextOp(font, size, align, x, y, text) ==
    [font |-> font, size |-> size, align |-> align, x |-> x, y |-> y,
     text |-> unicode2T1(text)]

drawString(font, size, x, y, text) == TextOp(font, size, "left", x, y, text)

drawCentredString(font, size, x, y, text) ==
    TextOp(font, size, "centre", x, y, text)

\* Canvas.save(): the operations drawn since the last showPage() become a
\* page (none when nothing was drawn), and the document is written.
canvas_save(code) == PdfBytes(IF code = <<>> THEN <<>> ELSE <<code>>)

(* ------------------------------- pypdf -------------------------------- *)

\* PdfReader(stream): `object` takes no argument; pypdf's reader raises
\* PdfReadError (EmptyFileError, PdfStreamError) on bytes that are no PDF.
NewPdfReader(cls, stream) ==
    IF cls = "object" THEN Raise("TypeError")
    ELSE IF stream.kind # "pdf" THEN Raise("PdfReadError")
    ELSE Return(stream)

\* merge_page, were the overlay drawn first, under the page's content.
merge_page_under(page, page2) == page2 \o page

\* merge_page, were an overlay the page already ends with not drawn again.
merge_page_once(page, page2) ==
    IF /\ Len(page) >= Len(page2)
       /\ SubSeq(page, Len(page) - Len(page2) + 1, Len(page)) = page2
    THEN page
    ELSE page \o page2

\* page.merge_page(page2): page2's content is drawn after (over) page's.
merge_page(page, page2) == page \o page2

\* PdfWriter.add_page(page); `object` has no add_page.
add_page(cls, output, page) ==
    IF cls = "object" THEN Raise("AttributeError")
    ELSE Return(PdfBytes(Append(output, page)))

\* PdfWriter.write(buffer) followed by buffer.getvalue().
writer_write(output) == PdfBytes(output)

(* --------------------------- module state ------------------------------ *)

VARIABLES
    PdfReader,     \* the class the name PdfReader is bound to (lines 12-29)
    PdfWriter,     \* the class the name PdfWriter is bound to
    PdfMerger,     \* the class the name PdfMerger is bound to
    pc,            \* per request: where its coroutine is suspended
    req,           \* per request: the endpoint called and its arguments
    pdf_bytes_1,   \* per request: merge_pdfs' local after its first read
    modified_pdf_bytes,  \* per request: what the PDF logic returned or raised
    resp           \* per request: the response, once the handler returned

vars ==
    <<PdfReader, PdfWriter, PdfMerger, pc, req, pdf_bytes_1,
      modified_pdf_bytes, resp>>

bindings == <<PdfReader, PdfWriter, PdfMerger>>

\* The requests that may be in flight together.
Reqs == {"r1", "r2"}

(* ---------------------- the import ladder (12-29) --------------------- *)

\* What the interpreter finds installed: pypdf before 5.0 exports PdfMerger,
\* later versions do not; PyPDF2 before 3.0 exports a working PdfFileMerger,
\* PyPDF2 3.x exports the name but its constructor raises DeprecationError.
Envs ==
    [pypdf : {"absent", "with PdfMerger", "without PdfMerger"},
     PyPDF2 : {"absent", "with PdfFileMerger", "with removed PdfFileMerger"}]

ImportBindings(env) ==
    IF env.pypdf = "with PdfMerger"
    THEN [reader |-> "pypdf.PdfReader", writer |-> "pypdf.PdfWriter",
          merger |-> "pypdf.PdfMerger"]
    ELSE IF env.pypdf = "without PdfMerger" /\ env.PyPDF2 = "with PdfFileMerger"
    THEN [reader |-> "pypdf.PdfReader", writer |-> "pypdf.PdfWriter",
          merger |-> "PyPDF2.PdfFileMerger"]
    ELSE IF /\ env.pypdf = "without PdfMerger"
            /\ env.PyPDF2 = "with removed PdfFileMerger"
    THEN [reader |-> "pypdf.PdfReader", writer |-> "pypdf.PdfWriter",
          merger |-> "PyPDF2.PdfFileMerger (removed)"]
    ELSE [reader |-> "object", writer |-> "object",
          merger |-> "DummyPdfMerger"]

(* ------------------------ the merger classes --------------------------- *)

\* PdfMerger(): the merger holds no page; the PdfFileMerger of PyPDF2 3.x
\* raises DeprecationError.
NewPdfMerger(cls) ==
    IF cls = "PyPDF2.PdfFileMerger (removed)" THEN Raise("DeprecationError")
    ELSE Return(PdfBytes(<<>>))

\* PdfMerger.append(fileobj): DummyPdfMerger.append does nothing; the real
\* mergers parse the stream and keep its pages after those they hold.
merger_append(cls, merger, stream) ==
    IF cls = "DummyPdfMerger" THEN Return(merger)
    ELSE IF stream.kind # "pdf" THEN Raise("PdfReadError")
    ELSE Return(PdfBytes(merger.pages \o stream.pages))

\* PdfMerger.write(buffer) followed by buffer.getvalue(): DummyPdfMerger.write
\* writes nothing.
merger_write(cls, merger) ==
    IF cls = "DummyPdfMerger" THEN EmptyBytes ELSE PdfBytes(merger.pages)

(* ------------------- add_text_to_pdf_logic (39-85) -------------------- *)

x_center == letter[1] \div 2

y_top == letter[2] - (3 * inch) \div 4

\* Lines 44-57: the overlay document.
overlay_packet(text_to_add) ==
    canvas_save(<<drawCentredString("Helvetica-Bold", 36, x_center, y_top,
                                    text_to_add)>>)

\* add_remaining, were the loop to stop one page early.
RECURSIVE add_remaining_short(_, _, _)
add_remaining_short(output, pages, i) ==
    IF i >= Len(pages) - 1 THEN Return(PdfBytes(output))
    ELSE LET added == add_page(PdfWriter, output, pages[i + 1])
         IN  IF added.exc # "none" THEN added
             ELSE add_remaining_short(added.val.pages, pages, i + 1)

\* add_remaining, were page i - 1 added where page i is.
RECURSIVE add_remaining_shifted(_, _, _)
add_remaining_shifted(output, pages, i) ==
    IF i >= Len(pages) THEN Return(PdfBytes(output))
    ELSE LET added == add_page(PdfWriter, output, pages[i])
         IN  IF added.exc # "none" THEN added
             ELSE add_remaining_shifted(added.val.pages, pages, i + 1)

\* Lines 76-77: for i in range(1, len(existing_pdf.pages)), with i + 1 the
\* 1-based index of page i.
RECURSIVE add_remaining(_, _, _)
add_remaining(output, pages, i) ==
    IF i >= Len(pages) THEN Return(PdfBytes(output))
    ELSE LET added == add_page(PdfWriter, output, pages[i + 1])
         IN  IF added.exc # "none" THEN added
             ELSE add_remaining(added.val.pages, pages, i + 1)

add_text_to_pdf_logic(pdf_bytes, text_to_add) ==
    LET new_pdf == NewPdfReader(PdfReader, overlay_packet(text_to_add)) IN
    IF new_pdf.exc # "none" THEN Raise(new_pdf.exc)
    ELSE
    LET existing_pdf == NewPdfReader(PdfReader, pdf_bytes) IN
    IF existing_pdf.exc # "none" THEN Raise(existing_pdf.exc)
    ELSE IF existing_pdf.val.pages = <<>> THEN Raise("ValueError")
    ELSE
    LET page == merge_page(existing_pdf.val.pages[1], new_pdf.val.pages[1])
        first == add_page(PdfWriter, <<>>, page)
    IN  IF first.exc # "none" THEN first
        ELSE LET output == add_remaining(first.val.pages,
                                         existing_pdf.val.pages, 1)
             IN  IF output.exc # "none" THEN output
                 ELSE Return(writer_write(output.val.pages))

(* --------------------------- HTTP outcomes ----------------------------- *)

NoResp ==
    [status |-> 0, media |-> "none", body |-> EmptyBytes, error |-> "none",
     disposition |-> <<>>]

HTTPException(status_code, exc) ==
    [status |-> status_code, media |-> "application/json",
     body |-> EmptyBytes, error |-> exc, disposition |-> <<>>]

\* Code points outside ISO-8859-1: those Helvetica cannot encode, and those
\* WinAnsi holds but ISO-8859-1 does not (the euro sign).
NonLatin1 == NonT1 \cup {"U+20AC"}

\* StreamingResponse(io.BytesIO(bytes), media_type="application/pdf",
\* headers={"Content-Disposition": value}): the constructor encodes the header
\* as ISO-8859-1; the UnicodeEncodeError of a value it cannot encode is raised
\* outside the handler's try blocks, and the server answers 500.
StreamingResponse(bytes, value) ==
    IF \E i \in 1..Len(value) : value[i] \in NonLatin1
    THEN [status |-> 500, media |-> "text/plain", body |-> EmptyBytes,
          error |-> "UnicodeEncodeError", disposition |-> <<>>]
    ELSE [status |-> 200, media |-> "application/pdf", body |-> bytes,
          error |-> "none", disposition |-> value]

\* str.replace(' ', '_')
replace_spaces(text) ==
    [i \in 1..Len(text) |-> IF text[i] = " " THEN "_" ELSE text[i]]

\* process_pdf_respond, were ValueError not caught apart.
process_pdf_respond_all_500(modified, filename) ==
    IF modified.exc = "none"
    THEN StreamingResponse(modified.val,
             <<"attachment; filename=modified_">> \o filename)
    ELSE HTTPException(500, modified.exc)

\* Lines 102-117 of process_pdf: the answer to what add_text_to_pdf_logic
\* returned or raised.
process_pdf_respond(modified, filename) ==
    IF modified.exc = "none"
    THEN StreamingResponse(modified.val,
             <<"attachment; filename=modified_">> \o filename)
    ELSE IF modified.exc = "ValueError"
    THEN HTTPException(400, modified.exc)
    ELSE HTTPException(500, modified.exc)

\* Lines 138-152 of merge_pdfs: the try block, once both files are read.
merge_pdfs_try(bytes_1, bytes_2) ==
    LET merger == NewPdfMerger(PdfMerger) IN
    IF merger.exc # "none" THEN merger
    ELSE
    LET first == merger_append(PdfMerger, merger.val, bytes_1) IN
    IF first.exc # "none" THEN first
    ELSE
    LET second == merger_append(PdfMerger, first.val, bytes_2) IN
    IF second.exc # "none" THEN second
    ELSE Return(merger_write(PdfMerger, second.val))

\* Lines 154-164 of merge_pdfs: the answer to what the try block produced.
merge_pdfs_respond(modified) ==
    IF modified.exc # "none" THEN HTTPException(500, modified.exc)
    ELSE StreamingResponse(modified.val,
             <<"attachment; filename=merged_document.pdf">>)

(* -------------------- generate_report_pdf (168-217) -------------------- *)

Digits == <<"0", "1", "2", "3", "4", "5", "6", "7", "8", "9">>

Digit(n) == Digits[n + 1]

\* datetime.strftime("%d/%m/%Y"): day and month zero-padded to two digits,
\* the year to four.
strftime_dmY(now) ==
    <<Digit(now.day \div 10), Digit(now.day % 10), "/",
      Digit(now.month \div 10), Digit(now.month % 10), "/",
      Digit(now.year \div 1000), Digit((now.year \div 100) % 10),
      Digit((now.year \div 10) % 10), Digit(now.year % 10)>>

x_margin == inch

\* The value of datetime.now() is an argument here.
generate_report_pdf(nome, telefone, now) ==
    LET data_atual == strftime_dmY(now)
        y1 == letter[2] - inch
        y2 == y1 - inch \div 4
        y3 == y2 - inch \div 4
        y4 == y3 - inch \div 2
        y5 == y4 - inch \div 5
        y6 == y5 - inch \div 5
        y7 == y6 - inch \div 5
        y8 == y7 - inch \div 2
    IN  canvas_save(<<
          drawString("Helvetica-Bold", 14, x_margin, y1,
              <<"U+1F9EC", " Instituto Vitalis de Sa", "U+00FA",
                "de Feminina">>),
          drawString("Helvetica-Bold", 14, x_margin, y2,
              <<"Diagn", "U+00F3", "stico Hormonal Personalizado">>),
          drawString("Helvetica-Bold", 14, x_margin, y3,
              <<"Mapa da Cascata Hormonal e N", "U+00ED",
                "vel de Estresse End", "U+00F3", "crino">>),
          drawString("Helvetica", 12, x_margin, y4, <<"Nome: ">> \o nome),
          drawString("Helvetica", 12, x_margin, y5,
              <<"Telefone: ">> \o telefone),
          drawString("Helvetica", 12, x_margin, y6,
              <<"Data: ">> \o data_atual),
          drawString("Helvetica", 12, x_margin, y7,
              <<"Tipo de Avalia", "U+00E7", "U+00E3", "o: Pr", "U+00E9",
                "-Diagn", "U+00F3", "stico de Cascata Hormonal">>),
          drawString("Helvetica-Oblique", 10, x_margin, y8,
              <<"Relat", "U+00F3", "rio confidencial preparado com base nas ",
                "suas respostas ao question", "U+00E1",
                "rio de equil", "U+00ED", "brio hormonal.">>)
        >>)

\* Lines 228-241 of generate_report: nothing in generate_report_pdf raises.
generate_report_respond(pdf_bytes, nome) ==
    StreamingResponse(pdf_bytes,
        <<"attachment; filename=relatorio_">> \o replace_spaces(nome)
            \o <<".pdf">>)

(* ------------------------------ inputs --------------------------------- *)

\* An uploaded page: one line of text naming it.
Page(doc, i) ==
    <<TextOp("Times-Roman", 12, "left", inch, 10 * inch, <<doc, Digit(i)>>)>>

Doc(doc, n) == [i \in 1..n |-> Page(doc, i)]

Files ==
    {PdfBytes(Doc("a", n)) : n \in 0..MaxPages}
        \cup {PdfBytes(Doc("b", 1)), JunkBytes, BrokenFile}

Names == {<<"A", "n", " ", "A">>, <<"L", "i", " ", "U+674E">>, <<"U+20AC">>}

\* The names the uploads carry.
Filenames == {<<"d", ".", "p", "d", "f">>, <<"U+674E", ".", "p", "d", "f">>}

Phones == {<<"1", "1", "9">>, <<"9", "U+674E">>}

Clock ==
    {[day |-> 5, month |-> 3, year |-> 2024],
     [day |-> 30, month |-> 10, year |-> 2026]}

NoDate == [day |-> 0, month |-> 0, year |-> 0]

NoReq ==
    [kind |-> "none", file1 |-> EmptyBytes, filename |-> <<>>,
     file2 |-> EmptyBytes, name |-> <<>>, phone |-> <<>>, now |-> NoDate]

\* No call was made: neither a value nor an exception.
NoResult == [exc |-> "unset", val |-> EmptyBytes]

\* The documents process_pdf answered with and that a client still holds,
\* small enough to be sent again.
Returned ==
    {resp[r].body : r \in {q \in Reqs :
        /\ pc[q] = "done"
        /\ req[q].kind = "process_pdf"
        /\ resp[q].status = 200
        /\ resp[q].body.kind = "pdf"
        /\ Len(resp[q].body.pages) \in 1..MaxPages
        /\ Len(resp[q].body.pages[1]) <= MaxStack}}

\* UploadFile.read()
read(file) == IF file.kind = "broken" THEN Raise("OSError") ELSE Return(file)

(* ------------------------------ actions -------------------------------- *)

Init ==
    /\ \E env \in Envs :
          /\ PdfReader = ImportBindings(env).reader
          /\ PdfWriter = ImportBindings(env).writer
          /\ PdfMerger = ImportBindings(env).merger
    /\ pc = [r \in Reqs |-> "idle"]
    /\ req = [r \in Reqs |-> NoReq]
    /\ pdf_bytes_1 = [r \in Reqs |-> EmptyBytes]
    /\ modified_pdf_bytes = [r \in Reqs |-> NoResult]
    /\ resp = [r \in Reqs |-> NoResp]

\* POST /process-pdf/ up to the await of line 98.
process_pdf_call(r, pdf_file, filename, name) ==
    /\ pc[r] = "idle"
    /\ req' = [req EXCEPT ![r] = [NoReq EXCEPT !.kind = "process_pdf",
                                  !.file1 = pdf_file, !.filename = filename,
                                  !.name = name]]
    /\ pc' = [pc EXCEPT ![r] = "process_pdf:98"]
    /\ UNCHANGED <<bindings, pdf_bytes_1, modified_pdf_bytes, resp>>

\* process_pdf from the read's completion to its return (98-117).
process_pdf_resume(r) ==
    /\ pc[r] = "process_pdf:98"
    /\ LET pdf_bytes == read(req[r].file1) IN
       IF pdf_bytes.exc # "none"
       THEN /\ resp' = [resp EXCEPT ![r] = HTTPException(400, pdf_bytes.exc)]
            /\ UNCHANGED modified_pdf_bytes
       ELSE LET modified == add_text_to_pdf_logic(pdf_bytes.val, req[r].name)
            IN  /\ modified_pdf_bytes' =
                       [modified_pdf_bytes EXCEPT ![r] = modified]
                /\ resp' = [resp EXCEPT ![r] =
                       process_pdf_respond(modified, req[r].filename)]
    /\ pc' = [pc EXCEPT ![r] = "done"]
    /\ UNCHANGED <<bindings, req, pdf_bytes_1>>

\* POST /merge-pdfs/ up to the await of line 132.
merge_pdfs_call(r, pdf_file_1, pdf_file_2) ==
    /\ pc[r] = "idle"
    /\ req' = [req EXCEPT ![r] = [NoReq EXCEPT !.kind = "merge_pdfs",
                                  !.file1 = pdf_file_1, !.file2 = pdf_file_2]]
    /\ pc' = [pc EXCEPT ![r] = "merge_pdfs:132"]
    /\ UNCHANGED <<bindings, pdf_bytes_1, modified_pdf_bytes, resp>>

\* merge_pdfs_read_1, were pdf_bytes_1 one module-level name that every
\* request shares.
merge_pdfs_read_1_shared(r) ==
    /\ pc[r] = "merge_pdfs:132"
    /\ LET bytes_1 == read(req[r].file1) IN
       IF bytes_1.exc # "none"
       THEN /\ resp' = [resp EXCEPT ![r] = HTTPException(400, bytes_1.exc)]
            /\ pc' = [pc EXCEPT ![r] = "done"]
            /\ UNCHANGED pdf_bytes_1
       ELSE /\ pdf_bytes_1' = [q \in Reqs |-> bytes_1.val]
            /\ pc' = [pc EXCEPT ![r] = "merge_pdfs:133"]
            /\ UNCHANGED resp
    /\ UNCHANGED <<bindings, req, modified_pdf_bytes>>

\* merge_pdfs from the first read's completion to the await of line 133.
merge_pdfs_read_1(r) ==
    /\ pc[r] = "merge_pdfs:132"
    /\ LET bytes_1 == read(req[r].file1) IN
       IF bytes_1.exc # "none"
       THEN /\ resp' = [resp EXCEPT ![r] = HTTPException(400, bytes_1.exc)]
            /\ pc' = [pc EXCEPT ![r] = "done"]
            /\ UNCHANGED pdf_bytes_1
       ELSE /\ pdf_bytes_1' = [pdf_bytes_1 EXCEPT ![r] = bytes_1.val]
            /\ pc' = [pc EXCEPT ![r] = "merge_pdfs:133"]
            /\ UNCHANGED resp
    /\ UNCHANGED <<bindings, req, modified_pdf_bytes>>

\* merge_pdfs from the second read's completion to its return (133-164).
merge_pdfs_resume(r) ==
    /\ pc[r] = "merge_pdfs:133"
    /\ LET bytes_2 == read(req[r].file2) IN
       IF bytes_2.exc # "none"
       THEN /\ resp' = [resp EXCEPT ![r] = HTTPException(400, bytes_2.exc)]
            /\ UNCHANGED modified_pdf_bytes
       ELSE LET modified == merge_pdfs_try(pdf_bytes_1[r], bytes_2.val)
            IN  /\ modified_pdf_bytes' =
                       [modified_pdf_bytes EXCEPT ![r] = modified]
                /\ resp' = [resp EXCEPT ![r] = merge_pdfs_respond(modified)]
    /\ pdf_bytes_1' = [pdf_bytes_1 EXCEPT ![r] = EmptyBytes]
    /\ pc' = [pc EXCEPT ![r] = "done"]
    /\ UNCHANGED <<bindings, req>>

\* POST /generate-report/: the handler awaits nothing (220-241).
generate_report(r, nome, telefone, now) ==
    /\ pc[r] = "idle"
    /\ req' = [req EXCEPT ![r] = [NoReq EXCEPT !.kind = "generate_report",
                                  !.name = nome, !.phone = telefone,
                                  !.now = now]]
    /\ LET pdf_bytes == generate_report_pdf(nome, telefone, now) IN
       /\ modified_pdf_bytes' =
              [modified_pdf_bytes EXCEPT ![r] = Return(pdf_bytes)]
       /\ resp' = [resp EXCEPT ![r] = generate_report_respond(pdf_bytes, nome)]
    /\ pc' = [pc EXCEPT ![r] = "done"]
    /\ UNCHANGED <<bindings, pdf_bytes_1>>

\* The response is sent and the request's objects are dropped.
respond(r) ==
    /\ pc[r] = "done"
    /\ pc' = [pc EXCEPT ![r] = "idle"]
    /\ req' = [req EXCEPT ![r] = NoReq]
    /\ modified_pdf_bytes' = [modified_pdf_bytes EXCEPT ![r] = NoResult]
    /\ resp' = [resp EXCEPT ![r] = NoResp]
    /\ UNCHANGED <<bindings, pdf_bytes_1>>

Next ==
    \E r \in Reqs :
        \/ \E f \in Files \cup Returned, fn \in Filenames, n \in Names :
              process_pdf_call(r, f, fn, n)
        \/ process_pdf_resume(r)
        \/ \E f1 \in Files, f2 \in Files : merge_pdfs_call(r, f1, f2)
        \/ merge_pdfs_read_1(r)
        \/ merge_pdfs_resume(r)
        \/ \E n \in Names, t \in Phones, now \in Clock :
              generate_report(r, n, t, now)
        \/ respond(r)

Spec == Init /\ [][Next]_vars

(* ------------------------- terms of the claims ------------------------- *)

\* PdfReader, as add_text_to_pdf_logic calls it on the upload of process_pdf,
\* parses the bytes into a document.  A term of the process_pdf claims only:
\* merge_pdfs reads no file with PdfReader.
Decodable(bytes) == NewPdfReader(PdfReader, bytes).exc = "none"

Finished(r, kind) == pc[r] = "done" /\ req[r].kind = kind

\* add_text_to_pdf_logic returned a document for request r.
Overlaid(r) ==
    Finished(r, "process_pdf") /\ modified_pdf_bytes[r].exc = "none"

\* The one text operation the overlay of `name` holds, written out.
OverlayOp(name) ==
    [font |-> "Helvetica-Bold", size |-> 36, align |-> "centre",
     x |-> 3060, y |-> 7380,
     text |-> [i \in 1..Len(name) |->
                  IF name[i] \in NonT1 THEN "notdef" ELSE name[i]]]

Contains(text, sub) ==
    \E i \in 0..(Len(text) - Len(sub)) :
        SubSeq(text, i + 1, i + Len(sub)) = sub

PageContains(page, sub) == \E k \in 1..Len(page) : Contains(page[k].text, sub)

IsDigit(c) == \E n \in 1..10 : c = Digits[n]

\* DD/MM/YYYY
IsDMY(s) ==
    /\ Len(s) = 10
    /\ s[3] = "/" /\ s[6] = "/"
    /\ \A i \in {1, 2, 4, 5, 7, 8, 9, 10} : IsDigit(s[i])

PageHasDate(page) ==
    \E k \in 1..Len(page) :
        \E i \in 0..(Len(page[k].text) - 10) :
            IsDMY(SubSeq(page[k].text, i + 1, i + 10))

(* ------------------------------- C1 ------------------------------------ *)

\* C1: add_text_to_pdf_logic returns a document for every decodable upload
\* of at least one page, and every document it returns has as many pages as
\* the one uploaded.
C1_PageCountPreserved ==
    \A r \in Reqs :
        Finished(r, "process_pdf") =>
            /\ (Decodable(req[r].file1) /\ Len(req[r].file1.pages) >= 1
                    => modified_pdf_bytes[r].exc = "none")
            /\ (modified_pdf_bytes[r].exc = "none"
                    => /\ modified_pdf_bytes[r].val.kind = "pdf"
                       /\ Len(modified_pdf_bytes[r].val.pages)
                              = Len(req[r].file1.pages))

C1_Witness ==
    \E r \in Reqs : Overlaid(r) /\ Len(req[r].file1.pages) >= 2

(* ------------------------------- C2 ------------------------------------ *)

\* C2: in the document add_text_to_pdf_logic returns for a document of N
\* pages, every page after the first is the uploaded page of the same index,
\* and the first page is not the uploaded first page.
C2_OtherPagesUnchanged ==
    \A r \in Reqs :
        Overlaid(r) =>
            /\ Len(modified_pdf_bytes[r].val.pages) = Len(req[r].file1.pages)
            /\ \A i \in 2..Len(req[r].file1.pages) :
                  modified_pdf_bytes[r].val.pages[i] = req[r].file1.pages[i]
            /\ modified_pdf_bytes[r].val.pages[1] # req[r].file1.pages[1]

C2_Witness ==
    \E r \in Reqs :
        /\ Overlaid(r)
        /\ Len(req[r].file1.pages) >= 2
        /\ req[r].file1.pages[1] # req[r].file1.pages[2]

(* ------------------------------- C3 ------------------------------------ *)

\* The uploaded bytes are a PDF document.
IsPdf(file) == file.kind = "pdf"

\* C3: merge_pdfs of two files that are PDF documents, of any number of
\* pages, answers with the document whose pages are those of the first file,
\* in order, followed by those of the second, in order; merging with a
\* document of no page gives the pages of the other document.
C3_ConcatenationInOrder ==
    \A r \in Reqs :
        (/\ Finished(r, "merge_pdfs")
         /\ IsPdf(req[r].file1)
         /\ IsPdf(req[r].file2))
            => LET D1 == req[r].file1.pages
                   D2 == req[r].file2.pages
                   out == resp[r].body
               IN  /\ resp[r].status = 200
                   /\ out.kind = "pdf"
                   /\ Len(out.pages) = Len(D1) + Len(D2)
                   /\ \A i \in 1..Len(D1) : out.pages[i] = D1[i]
                   /\ \A i \in 1..Len(D2) : out.pages[Len(D1) + i] = D2[i]
                   /\ (D1 = <<>> => out.pages = D2)
                   /\ (D2 = <<>> => out.pages = D1)

(* ------------------------------- C4 ------------------------------------ *)

\* C4: add_text_to_pdf_logic of a decodable document of no page raises
\* ValueError, and process_pdf answers 400 with no PDF bytes.
C4_EmptyDocumentIs400 ==
    \A r \in Reqs :
        (/\ Finished(r, "process_pdf")
         /\ Decodable(req[r].file1)
         /\ req[r].file1.pages = <<>>)
            => /\ modified_pdf_bytes[r].exc = "ValueError"
               /\ resp[r].status = 400
               /\ resp[r].error = "ValueError"
               /\ resp[r].body = EmptyBytes
               /\ resp[r].media # "application/pdf"

C4_Witness ==
    \E r \in Reqs :
        /\ Finished(r, "process_pdf")
        /\ Decodable(req[r].file1)
        /\ req[r].file1.pages = <<>>
        /\ resp[r].status = 400

(* ------------------------------- C5 ------------------------------------ *)

Unparsable(file) == file.kind = "junk"

\* C5: when the bytes read from an upload of process_pdf, or from either
\* upload of merge_pdfs, are no PDF, the answer is 400.  Stated where the
\* PDF library was imported, so that it is the library's parse that fails.
C5_UnparsableIs400 ==
    \A r \in Reqs :
        /\ ((/\ Finished(r, "process_pdf")
             /\ PdfReader = "pypdf.PdfReader"
             /\ Unparsable(req[r].file1))
                => resp[r].status = 400)
        /\ ((/\ Finished(r, "merge_pdfs")
             /\ PdfMerger # "DummyPdfMerger"
             /\ req[r].file1.kind # "broken"
             /\ req[r].file2.kind # "broken"
             /\ (Unparsable(req[r].file1) \/ Unparsable(req[r].file2)))
                => resp[r].status = 400)

(* ------------------------------- C6 ------------------------------------ *)

\* C6: every answer is either 200 with a PDF document as its body, or an
\* error with no PDF bytes.
C6_AllOrNothing ==
    \A r \in Reqs :
        pc[r] = "done" =>
            \/ resp[r].status = 200 /\ resp[r].body.kind = "pdf"
            \/ /\ resp[r].status \in {400, 500}
               /\ resp[r].body = EmptyBytes
               /\ resp[r].media # "application/pdf"

(* ------------------------------- C7 ------------------------------------ *)

\* Every character of the text is one Helvetica, or a font it falls back to,
\* encodes.
Drawable(text) == \A i \in 1..Len(text) : text[i] \notin NonT1

\* C7: generate_report answers 200 with a document of exactly one page that
\* holds a date DD/MM/YYYY, the name and the phone.  Stated for the names and
\* phones Helvetica can draw, so that it is not a glyph the font lacks that
\* fails.
C7_ReportReturned ==
    \A r \in Reqs :
        (/\ Finished(r, "generate_report")
         /\ Drawable(req[r].name)
         /\ Drawable(req[r].phone))
            => /\ resp[r].status = 200
               /\ resp[r].body.kind = "pdf"
               /\ Len(resp[r].body.pages) = 1
               /\ PageContains(resp[r].body.pages[1], req[r].name)
               /\ PageContains(resp[r].body.pages[1], req[r].phone)
               /\ PageHasDate(resp[r].body.pages[1])

(* ------------------------------- C8 ------------------------------------ *)

\* C8: when the document add_text_to_pdf_logic returned for D is overlaid
\* again with the same text, the second result is not the first: its first
\* page is D's first page followed by the overlay twice, and it has as many
\* pages as D.
C8_OverlayNotIdempotent ==
    \A q \in Reqs, r \in Reqs :
        (/\ Overlaid(q) /\ Overlaid(r)
         /\ req[r].file1 = modified_pdf_bytes[q].val
         /\ req[r].name = req[q].name)
            => LET once == modified_pdf_bytes[q].val
                   twice == modified_pdf_bytes[r].val
               IN  /\ twice # once
                   /\ Len(twice.pages) = Len(req[q].file1.pages)
                   /\ twice.pages[1]
                          = req[q].file1.pages[1]
                              \o <<OverlayOp(req[q].name),
                                   OverlayOp(req[q].name)>>

C8_Witness ==
    \E q \in Reqs, r \in Reqs :
        /\ Overlaid(q) /\ Overlaid(r)
        /\ req[r].file1 = modified_pdf_bytes[q].val
        /\ req[r].name = req[q].name
        /\ Len(req[q].file1.pages) >= 2

(* ------------------------------- C9 ------------------------------------ *)

\* The answer to request q when it runs with no other request in flight.
Alone(q) ==
    CASE q.kind = "process_pdf" ->
            IF read(q.file1).exc # "none"
            THEN HTTPException(400, read(q.file1).exc)
            ELSE process_pdf_respond(add_text_to_pdf_logic(q.file1, q.name),
                                     q.filename)
      [] q.kind = "merge_pdfs" ->
            IF read(q.file1).exc # "none"
            THEN HTTPException(400, read(q.file1).exc)
            ELSE IF read(q.file2).exc # "none"
            THEN HTTPException(400, read(q.file2).exc)
            ELSE merge_pdfs_respond(merge_pdfs_try(q.file1, q.file2))
      [] q.kind = "generate_report" ->
            generate_report_respond(
                generate_report_pdf(q.name, q.phone, q.now), q.name)
      [] OTHER -> NoResp

\* C9: under every interleaving of the requests in flight, what a request
\* holds between its awaits is what it read from its own upload, and its
\* answer is the answer it gets when run alone on its own arguments.
C9_RequestsIndependent ==
    \A r \in Reqs :
        /\ (pc[r] = "merge_pdfs:133" => pdf_bytes_1[r] = req[r].file1)
        /\ (pc[r] = "done" => resp[r] = Alone(req[r]))

C9_Witness ==
    \E q \in Reqs, r \in Reqs :
        /\ q # r
        /\ pc[q] = "merge_pdfs:133"
        /\ Finished(r, "merge_pdfs")
        /\ resp[r].status = 200
        /\ req[r].file1 # req[q].file1
        /\ req[r].file1.kind = "pdf"
        /\ req[q].file1.kind = "pdf"

(* ------------------------------- C10 ----------------------------------- *)

\* C10: the first page add_text_to_pdf_logic returns is the content of the
\* uploaded first page followed by the overlay's one text operation, the
\* centred name: the overlay is drawn last, over the original.
C10_OverlayDrawnOverOriginal ==
    \A r \in Reqs :
        Overlaid(r) =>
            modified_pdf_bytes[r].val.pages[1]
                = req[r].file1.pages[1] \o <<OverlayOp(req[r].name)>>

C10_Witness ==
    \E r \in Reqs :
        LET page == modified_pdf_bytes[r].val.pages[1] IN
        /\ Overlaid(r)
        /\ Len(req[r].file1.pages[1]) >= 1
        /\ page[Len(page)].align = "centre"

====
